---- MODULE Spec2Model ----
(***************************************************************************)
(* A model of extensions/html/client/src/htmlMain.ts: the activation of    *)
(* the HTML language client, the colour provider it registers once the     *)
(* client is ready, the tag-close requestor, the telemetry relay and the   *)
(* disposal of context.subscriptions.                                      *)
(*                                                                         *)
(* Numbers.  A colour channel is a JavaScript number in [0,1].  The red,   *)
(* green and blue channels are modelled in fixed point, as a numerator n   *)
(* over ChannelScale (n = ChannelScale is 1.0); alpha is modelled in       *)
(* hundredths (100 is 1.0) because the code prints it in decimal.          *)
(* Math.round is computed exactly on these rationals.                      *)
(*                                                                         *)
(* Strings.  A label is a sequence of one-character strings, so that       *)
(* formatting (number to decimal, number to hexadecimal, padding) is       *)
(* computed digit by digit as the code does it.                            *)
(***************************************************************************)
EXTENDS Integers, Sequences, FiniteSets, TLC

VARIABLES
    packageJson,        \* what require('./package.json') finds: "present", "falsy", "absent"
    pc,                 \* activate(): "init" (not called), "done" (returned), "threw"
    telemetryReporter,  \* "null" or "reporter" (line 36)
    clientState,        \* the LanguageClient: "none", "starting", "running", "stopping",
                        \* "stopped", "startFailed"
    onReady,            \* the client.onReady() promise: "none", "pending", "resolved", "rejected"
    subscriptions,      \* context.subscriptions (toDispose), in push order
    registered,         \* the registrations made by the onReady callback, in order
    live,               \* the disposables that exist and are not disposed
    shutdown,           \* the host has disposed context.subscriptions
    langConfigs,        \* languages given a configuration by setLanguageConfiguration
    serverUp,           \* the server process and its channel are available
    calls,              \* provider calls that go to the server, in call order
    colorCall,          \* the last provideColorPresentations call: argument and return
    emitted,            \* telemetry notifications the server has emitted
    reporterLog         \* the sendTelemetryEvent calls made on the reporter

vars == <<packageJson, pc, telemetryReporter, clientState, onReady, subscriptions,
          registered, live, shutdown, langConfigs, serverUp, calls, colorCall,
          emitted, reporterLog>>

lifecycleVars == <<packageJson, pc, telemetryReporter, clientState, onReady,
                   subscriptions, registered, live, shutdown, langConfigs>>

(***************************************************************************)
(* Bounds of the model.                                                    *)
(***************************************************************************)
ChannelScale == 510   \* resolution of a colour channel: n / ChannelScale
MaxCalls == 2         \* provider calls to the server per run
MaxSymbols == 2       \* colours in one server answer
MaxEvents == 2        \* telemetry notifications per run

(***************************************************************************)
(* Text.                                                                   *)
(***************************************************************************)
Digits == <<"0", "1", "2", "3", "4", "5", "6", "7", "8", "9",
            "a", "b", "c", "d", "e", "f">>

\* Number.prototype.toString(radix) of a non-negative integer.
RECURSIVE toString(_, _)
toString(n, radix) ==
    IF n < radix THEN <<Digits[n + 1]>>
    ELSE toString(n \div radix, radix) \o <<Digits[(n % radix) + 1]>>

\* `${n}` of a non-negative integer.
Decimal(n) == toString(n, 10)

\* `${color.alpha}` of an alpha of a hundredths: 1, 0, 0.5, 0.25, 0.05 (lines 97, 114).
AlphaText(a) ==
    IF a % 100 = 0 THEN Decimal(a \div 100)
    ELSE IF a % 10 = 0 THEN Decimal(a \div 100) \o <<".">> \o Decimal((a % 100) \div 10)
    ELSE Decimal(a \div 100) \o <<".">> \o Decimal((a % 100) \div 10) \o Decimal(a % 10)

\* A variant that never pads.
toTwoDigitHexNoPad(n) == toString(n, 16)

\* _toTwoDigitHex, lines 71-74.
toTwoDigitHex(n) ==
    LET r == toString(n, 16)
    IN  IF Len(r) # 2 THEN <<"0">> \o r ELSE r

(***************************************************************************)
(* Arithmetic.                                                             *)
(***************************************************************************)
\* Math.round(p / q) for p >= 0, q > 0: the nearest integer, halves upwards.
RoundDiv(p, q) == (2 * p + q) \div (2 * q)

\* Math.round(color.red * 255) for the channel n / ChannelScale.
RoundByte(n) == RoundDiv(n * 255, ChannelScale)

\* Math.round(color.alpha * 255) for the alpha a / 100.
RoundAlphaByte(a) == RoundDiv(a * 255, 100)

Max3(a, b, c) == IF a >= b /\ a >= c THEN a ELSE IF b >= c THEN b ELSE c
Min3(a, b, c) == IF a <= b /\ a <= c THEN a ELSE IF b <= c THEN b ELSE c

\* convert.rgb.hsl of the color-convert package on three bytes: hue in degrees,
\* saturation and lightness in percent, each rounded to an integer.
rgb_hsl(r, g, b) ==
    LET mx == Max3(r, g, b)
        mn == Min3(r, g, b)
        delta == mx - mn
        \* the hue, times delta, in degrees
        h0 == IF delta = 0 THEN 0
              ELSE IF r = mx THEN 60 * (g - b)
              ELSE IF g = mx THEN 120 * delta + 60 * (b - r)
              ELSE 240 * delta + 60 * (r - g)
        h60 == IF h0 > 360 * delta THEN 360 * delta ELSE h0   \* Math.min(h * 60, 360)
        h1 == IF h60 < 0 THEN h60 + 360 * delta ELSE h60
        h == IF delta = 0 THEN 0 ELSE RoundDiv(h1, delta)
        l == RoundDiv(100 * (mn + mx), 510)
        s == IF delta = 0 THEN 0
             ELSE IF mn + mx <= 255 THEN RoundDiv(100 * delta, mx + mn)
             ELSE RoundDiv(100 * delta, 510 - mx - mn)
    IN  <<h, s, l>>

(***************************************************************************)
(* The colour provider (lines 79-120).                                     *)
(***************************************************************************)
Sep == <<",", " ">>

\* { label, textEdit: new TextEdit(range, label) }, lines 100, 108, 117.
Presentation(range, label) ==
    [label |-> label, textEdit |-> [range |-> range, newText |-> label]]

\* lines 94-98
RgbLabel(color) ==
    LET r == Decimal(RoundByte(color.red))
        g == Decimal(RoundByte(color.green))
        b == Decimal(RoundByte(color.blue))
    IN  IF color.alpha = 100
        THEN <<"r", "g", "b", "(">> \o r \o Sep \o g \o Sep \o b \o <<")">>
        ELSE <<"r", "g", "b", "a", "(">> \o r \o Sep \o g \o Sep \o b
                 \o Sep \o AlphaText(color.alpha) \o <<")">>

\* A variant that appends the alpha byte to every colour.
HexLabelAlwaysAlpha(color) ==
    <<"#">> \o toTwoDigitHex(RoundByte(color.red))
            \o toTwoDigitHex(RoundByte(color.green))
            \o toTwoDigitHex(RoundByte(color.blue))
            \o toTwoDigitHex(RoundAlphaByte(color.alpha))

\* lines 102-106
HexLabel(color) ==
    IF color.alpha = 100
    THEN <<"#">> \o toTwoDigitHex(RoundByte(color.red))
                 \o toTwoDigitHex(RoundByte(color.green))
                 \o toTwoDigitHex(RoundByte(color.blue))
    ELSE <<"#">> \o toTwoDigitHex(RoundByte(color.red))
                 \o toTwoDigitHex(RoundByte(color.green))
                 \o toTwoDigitHex(RoundByte(color.blue))
                 \o toTwoDigitHex(RoundAlphaByte(color.alpha))

\* lines 110-115
HslLabel(color) ==
    LET hsl == rgb_hsl(RoundByte(color.red), RoundByte(color.green), RoundByte(color.blue))
        h == Decimal(hsl[1])
        s == Decimal(hsl[2]) \o <<"%">>
        l == Decimal(hsl[3]) \o <<"%">>
    IN  IF color.alpha = 100
        THEN <<"h", "s", "l", "(">> \o h \o Sep \o s \o Sep \o l \o <<")">>
        ELSE <<"h", "s", "l", "a", "(">> \o h \o Sep \o s \o Sep \o l
                 \o Sep \o AlphaText(color.alpha) \o <<")">>

\* A variant that pushes the hex form first.
provideColorPresentationsHexFirst(colorInfo) ==
    <<Presentation(colorInfo.range, HexLabel(colorInfo.color)),
      Presentation(colorInfo.range, RgbLabel(colorInfo.color)),
      Presentation(colorInfo.range, HslLabel(colorInfo.color))>>

\* A variant whose three text edits all insert the first label.
provideColorPresentationsStaleEdit(colorInfo) ==
    LET first == Presentation(colorInfo.range, RgbLabel(colorInfo.color))
    IN  <<first,
          [first EXCEPT !.label = HexLabel(colorInfo.color)],
          [first EXCEPT !.label = HslLabel(colorInfo.color)]>>

\* provideColorPresentations, lines 90-119: the result array after its three pushes.
provideColorPresentations(colorInfo) ==
    <<Presentation(colorInfo.range, RgbLabel(colorInfo.color)),
      Presentation(colorInfo.range, HexLabel(colorInfo.color)),
      Presentation(colorInfo.range, HslLabel(colorInfo.color))>>

(***************************************************************************)
(* Values exchanged with the host and the server.                          *)
(***************************************************************************)
\* A range as the protocol carries it.
ProtocolRange(sl, sc, el, ec) ==
    [start |-> [line |-> sl, character |-> sc], end |-> [line |-> el, character |-> ec]]

\* A vscode.Range: two vscode.Position objects.
CodeRange(sl, sc, el, ec) ==
    [type |-> "Range",
     start |-> [type |-> "Position", line |-> sl, character |-> sc],
     end |-> [type |-> "Position", line |-> el, character |-> ec]]

\* client.protocol2CodeConverter.asRange, called at line 84.  The ranges of this
\* model are well formed (start not after end), as the server computes them from
\* document offsets.
asRange(r) == CodeRange(r.start.line, r.start.character, r.end.line, r.end.character)

\* new Color(red, green, blue, alpha)
Color(r, g, b, a) == [red |-> r, green |-> g, blue |-> b, alpha |-> a]

\* The colours the host asks about in the lifecycle runs: opaque red and a
\* translucent colour with a one-digit byte.
SomeColors ==
    {Color(ChannelScale, 0, 0, 100), Color(10, ChannelScale, 0, 50)}

SomeProtocolRanges == {ProtocolRange(0, 0, 0, 7), ProtocolRange(2, 4, 2, 20)}

\* The ColorInformation entries a server answer is made of.
Symbols ==
    {[range |-> ProtocolRange(0, 0, 0, 7), color |-> Color(ChannelScale, 0, 0, 100)],
     [range |-> ProtocolRange(2, 4, 2, 20), color |-> Color(10, ChannelScale, 0, 50)]}

RECURSIVE SeqsUpTo(_, _)
SeqsUpTo(S, n) ==
    IF n = 0 THEN {<<>>}
    ELSE LET shorter == SeqsUpTo(S, n - 1)
         IN  shorter \cup {Append(q, x) : q \in shorter, x \in S}

\* The server's answers to a document-colour request.
Answers == SeqsUpTo(Symbols, MaxSymbols)

\* The server's answers to a tag-close request.
Tags == {<<"<", "/", "p", ">">>, <<>>}

\* The arguments of provideColorPresentations in the lifecycle runs.
SomeColorInfos ==
    {[range |-> asRange(ProtocolRange(2, 4, 2, 20)), color |-> c] : c \in SomeColors}

\* The arguments of provideColorPresentations in the colour runs: every red
\* channel, so every byte and every half byte, at a few greens, blues and alphas.
AllColorInfos ==
    {[range |-> asRange(r), color |-> Color(red, g, b, a)] :
        r \in SomeProtocolRanges, red \in 0..ChannelScale,
        g \in {0, ChannelScale \div 3, ChannelScale},
        b \in {0, ChannelScale \div 2, ChannelScale},
        a \in {0, 5, 50, 99, 100}}

\* The telemetry notifications of the server: { key, data }.
Events == {[key |-> "k1", data |-> "d1"], [key |-> "k2", data |-> "d2"]}

(***************************************************************************)
(* activate (lines 32-186) and getPackageInfo (lines 188-198).             *)
(***************************************************************************)
Languages == {"html", "handlebars", "razor"}

\* require(context.asAbsolutePath('./package.json')), line 189: Node's require
\* throws when the file does not exist and returns the parsed value otherwise.
RequireThrows(pkg) == pkg = "absent"

\* getPackageInfo, lines 188-198, when require returns: the info or null.
getPackageInfo(pkg) == IF pkg = "present" THEN "info" ELSE "null"

\* line 36: packageInfo && new TelemetryReporter(...)
NewReporter(packageInfo) == IF packageInfo # "null" THEN "reporter" ELSE "null"

\* A variant that registers the colour provider last.
OnReadyRegistrationsProviderLast == <<"tagClosing", "telemetryHandler", "colorProvider">>

\* The registrations of the onReady callback, in the order it makes and pushes
\* them: lines 79-121, 123-128, 130-135.
OnReadyRegistrations == <<"colorProvider", "tagClosing", "telemetryHandler">>

Elements(q) == {q[i] : i \in 1..Len(q)}

Init ==
    /\ packageJson \in {"present", "falsy", "absent"}
    /\ pc = "init"
    /\ telemetryReporter = "null"
    /\ clientState = "none"
    /\ onReady = "none"
    /\ subscriptions = <<>>
    /\ registered = <<>>
    /\ live = {}
    /\ shutdown = FALSE
    /\ langConfigs = {}
    /\ serverUp = TRUE
    /\ calls = <<>>
    /\ colorCall = <<>>
    /\ emitted = <<>>
    /\ reporterLog = <<>>

\* activate(context), lines 32-186, up to its return or its throw.
Activate ==
    /\ pc = "init"
    /\ IF RequireThrows(packageJson)
       THEN /\ pc' = "threw"
            /\ UNCHANGED <<telemetryReporter, clientState, onReady, subscriptions,
                           live, langConfigs>>
       ELSE LET reporter == NewReporter(getPackageInfo(packageJson))
                pushed == IF reporter # "null" THEN <<"reporter">> ELSE <<>>
            IN  /\ telemetryReporter' = reporter
                /\ subscriptions' = subscriptions \o pushed \o <<"client">>
                /\ live' = live \cup Elements(pushed) \cup {"client"}
                /\ clientState' = "starting"
                /\ onReady' = "pending"
                /\ langConfigs' = Languages
                /\ pc' = "done"
    /\ UNCHANGED <<packageJson, registered, shutdown, serverUp, calls, colorCall,
                   emitted, reporterLog>>

\* The server answers the initialize request: the client is ready and the
\* callback of client.onReady().then runs (lines 78-136).  The answer also arrives
\* when stop() was called while the client was starting.
OnReady ==
    /\ onReady = "pending"
    /\ clientState \in {"starting", "stopping"}
    /\ serverUp
    /\ onReady' = "resolved"
    /\ clientState' = IF clientState = "starting" THEN "running" ELSE clientState
    /\ registered' = registered \o OnReadyRegistrations
    /\ live' = live \cup Elements(OnReadyRegistrations)
    /\ subscriptions' = subscriptions \o OnReadyRegistrations
    /\ UNCHANGED <<packageJson, pc, telemetryReporter, shutdown, langConfigs, serverUp,
                   calls, colorCall, emitted, reporterLog>>

\* The client fails to start: onReady() rejects, and the callback, which is the
\* fulfilment handler of line 78, never runs.
StartFailed ==
    /\ onReady = "pending"
    /\ clientState \in {"starting", "stopping"}
    /\ onReady' = "rejected"
    /\ clientState' = IF clientState = "starting" THEN "startFailed" ELSE "stopped"
    /\ UNCHANGED <<packageJson, pc, telemetryReporter, subscriptions, registered, live,
                   shutdown, langConfigs, serverUp, calls, colorCall, emitted,
                   reporterLog>>

\* The host disposes every element context.subscriptions holds at shutdown.  The
\* disposable of client.start() (lines 76-77) stops a starting or running client.
Shutdown ==
    /\ pc = "done"
    /\ ~shutdown
    /\ shutdown' = TRUE
    /\ live' = live \ Elements(subscriptions)
    /\ clientState' = IF clientState \in {"starting", "running"} THEN "stopping"
                      ELSE clientState
    /\ UNCHANGED <<packageJson, pc, telemetryReporter, onReady, subscriptions,
                   registered, langConfigs, serverUp, calls, colorCall, emitted,
                   reporterLog>>

\* The stop of the client completes: the connection is closed.
StopCompletes ==
    /\ clientState = "stopping"
    /\ clientState' = "stopped"
    /\ UNCHANGED <<packageJson, pc, telemetryReporter, onReady, subscriptions,
                   registered, live, shutdown, langConfigs, serverUp, calls, colorCall,
                   emitted, reporterLog>>

\* The server process or its channel becomes unavailable.
ServerDown ==
    /\ pc = "done"
    /\ serverUp
    /\ serverUp' = FALSE
    /\ UNCHANGED <<lifecycleVars, calls, colorCall, emitted, reporterLog>>

(***************************************************************************)
(* Provider calls (lines 80-89, 90-119, 123-126).                          *)
(***************************************************************************)
\* What client.sendRequest does with a request: it sends it on a running
\* client and throws on a client that is not running; on a client that is
\* stopping either may happen.
SendOutcomes(state) ==
    IF state = "running" THEN {"sent"}
    ELSE IF state = "stopping" THEN {"sent", "threw"}
    ELSE {"threw"}

\* A provider call that has made its one client.sendRequest call (line 82, line 125).
\* up records whether the server was available when the call last changed status.
NewCall(kind, outcome) ==
    [kind |-> kind,
     status |-> IF outcome = "sent" THEN "pending" ELSE "rejected",
     requests |-> 1,
     up |-> serverUp,
     answer |-> <<>>,
     result |-> <<>>]

\* A variant that passes blue for green and green for blue.
mapSymbolsSwapped(symbols) ==
    [i \in 1..Len(symbols) |->
        [range |-> asRange(symbols[i].range),
         color |-> Color(symbols[i].color.red, symbols[i].color.blue,
                         symbols[i].color.green, symbols[i].color.alpha)]]

\* symbols.map(symbol => new ColorInformation(range, color)), lines 83-87.
mapSymbols(symbols) ==
    [i \in 1..Len(symbols) |->
        [range |-> asRange(symbols[i].range),
         color |-> Color(symbols[i].color.red, symbols[i].color.green,
                         symbols[i].color.blue, symbols[i].color.alpha)]]

\* The fulfilment handler of the document-colour request, lines 82-88.
OnColorsResponse(call, symbols) ==
    [call EXCEPT !.status = "resolved", !.up = serverUp, !.answer = symbols,
                 !.result = mapSymbols(symbols)]

\* The tag-close request is returned as it is, line 125.
OnTagResponse(call, tag) ==
    [call EXCEPT !.status = "resolved", !.up = serverUp, !.answer = tag, !.result = tag]

\* A variant that recovers from a rejected request with an empty result.
OnRequestRejectedRecover(call) ==
    [call EXCEPT !.status = "resolved", !.up = serverUp]

\* The request promise rejects: neither line 82 nor line 125 gives a rejection
\* handler, so the provider's promise rejects with it.
OnRequestRejected(call) ==
    [call EXCEPT !.status = "rejected", !.up = serverUp]

\* The host asks for the colours of a document: provideDocumentColors, lines 80-89.
CallDocumentColors ==
    /\ "colorProvider" \in live
    /\ Len(calls) < MaxCalls
    /\ \E outcome \in SendOutcomes(clientState) :
          calls' = Append(calls, NewCall("colors", outcome))
    /\ UNCHANGED <<lifecycleVars, serverUp, colorCall, emitted, reporterLog>>

\* The tag-closing handler asks for the closing tag: tagRequestor, lines 123-126.
CallTagClose ==
    /\ "tagClosing" \in live
    /\ Len(calls) < MaxCalls
    /\ \E outcome \in SendOutcomes(clientState) :
          calls' = Append(calls, NewCall("tag", outcome))
    /\ UNCHANGED <<lifecycleVars, serverUp, colorCall, emitted, reporterLog>>

\* The server answers a pending request.
ServerAnswers ==
    /\ serverUp
    /\ clientState \in {"running", "stopping"}
    /\ \E i \in 1..Len(calls) :
          /\ calls[i].status = "pending"
          /\ \/ /\ calls[i].kind = "colors"
                /\ \E symbols \in Answers :
                      calls' = [calls EXCEPT ![i] = OnColorsResponse(@, symbols)]
             \/ /\ calls[i].kind = "tag"
                /\ \E tag \in Tags :
                      calls' = [calls EXCEPT ![i] = OnTagResponse(@, tag)]
    /\ UNCHANGED <<lifecycleVars, serverUp, colorCall, emitted, reporterLog>>

\* The channel reports an error for a pending request (the connection closed,
\* the server died, the server answered with an error).
ChannelError ==
    /\ \E i \in 1..Len(calls) :
          /\ calls[i].status = "pending"
          /\ calls' = [calls EXCEPT ![i] = OnRequestRejected(@)]
    /\ UNCHANGED <<lifecycleVars, serverUp, colorCall, emitted, reporterLog>>

\* The host asks for the presentations of a colour: provideColorPresentations,
\* lines 90-119, which returns at once.
CallColorPresentations(infos) ==
    /\ "colorProvider" \in live
    /\ \E colorInfo \in infos :
          colorCall' = <<[colorInfo |-> colorInfo,
                          result |-> provideColorPresentations(colorInfo),
                          serverUp |-> serverUp]>>
    /\ UNCHANGED <<lifecycleVars, serverUp, calls, emitted, reporterLog>>

(***************************************************************************)
(* The telemetry relay (lines 130-134).                                    *)
(***************************************************************************)
\* A variant that sends the key in place of the data.
TelemetryHandlerKeyOnly(log, e) ==
    IF telemetryReporter # "null"
    THEN Append(log, [key |-> e.key, data |-> e.key])
    ELSE log

\* e => { if (telemetryReporter) telemetryReporter.sendTelemetryEvent(e.key, e.data) }
TelemetryHandler(log, e) ==
    IF telemetryReporter # "null"
    THEN Append(log, [key |-> e.key, data |-> e.data])
    ELSE log

\* The server emits a telemetry notification; the client hands it to the
\* handler registered at line 130, if it is registered.  A server that was asked
\* to shut down emits none.
ServerEmitsTelemetry ==
    /\ serverUp
    /\ clientState \in {"starting", "running"}
    /\ Len(emitted) < MaxEvents
    /\ \E e \in Events :
          /\ emitted' = Append(emitted, [key |-> e.key, data |-> e.data,
                                         ready |-> clientState = "running"])
          /\ reporterLog' = IF "telemetryHandler" \in live
                            THEN TelemetryHandler(reporterLog, e)
                            ELSE reporterLog
    /\ UNCHANGED <<lifecycleVars, serverUp, calls, colorCall>>

(***************************************************************************)
(* Specifications.                                                         *)
(***************************************************************************)
Lifecycle ==
    \/ Activate
    \/ OnReady
    \/ StartFailed
    \/ Shutdown
    \/ StopCompletes
    \/ ServerDown

Next ==
    \/ Lifecycle
    \/ CallDocumentColors
    \/ CallTagClose
    \/ ServerAnswers
    \/ ChannelError
    \/ CallColorPresentations(SomeColorInfos)

\* The extension from before its activation to after its shutdown, with the
\* provider calls of the host.
Spec == Init /\ [][Next]_vars

TelemetryNext ==
    \/ Lifecycle
    \/ ServerEmitsTelemetry

\* The extension from before its activation to after its shutdown, with the
\* telemetry notifications of the server.
TelemetrySpec == Init /\ [][TelemetryNext]_vars

\* An activated extension whose client is ready and running.
ReadyState ==
    /\ packageJson = "present"
    /\ pc = "done"
    /\ telemetryReporter = "reporter"
    /\ clientState = "running"
    /\ onReady = "resolved"
    /\ subscriptions = <<"reporter", "client">> \o OnReadyRegistrations
    /\ registered = OnReadyRegistrations
    /\ live = {"reporter", "client"} \cup Elements(OnReadyRegistrations)
    /\ shutdown = FALSE
    /\ langConfigs = Languages
    /\ serverUp = TRUE
    /\ calls = <<>>
    /\ colorCall = <<>>
    /\ emitted = <<>>
    /\ reporterLog = <<>>

\* One call per run.
ColorNext ==
    /\ colorCall = <<>>
    /\ CallColorPresentations(AllColorInfos)

\* provideColorPresentations on every colour of AllColorInfos.
ColorSpec == ReadyState /\ [][ColorNext]_vars

(***************************************************************************)
(* Properties.                                                             *)
(***************************************************************************)
StartsWith(q, prefix) ==
    /\ Len(q) >= Len(prefix)
    /\ SubSeq(q, 1, Len(prefix)) = prefix

EndsWith(q, suffix) ==
    /\ Len(q) >= Len(suffix)
    /\ SubSeq(q, Len(q) - Len(suffix) + 1, Len(q)) = suffix

Count(q, ch) == Cardinality({i \in 1..Len(q) : q[i] = ch})

LowerHexDigits == {Digits[i] : i \in 1..16}

\* The value of two hexadecimal digits.
HexPairValue(hi, lo) ==
    16 * ((CHOOSE d \in 1..16 : Digits[d] = hi) - 1) + (CHOOSE d \in 1..16 : Digits[d] = lo) - 1

CallMade == colorCall # <<>>
CallArg == colorCall[1].colorInfo
CallResult == colorCall[1].result
Label(i) == CallResult[i].label

\* C1: provideColorPresentations returns exactly three presentations, the rgb form,
\* the hex form and the hsl form in that order: rgb(r, g, b), # and 6 digits, and
\* hsl(h, s%, l%) for an opaque colour; rgba(r, g, b, a), # and 8 digits whose last
\* two are the alpha byte, and hsla(h, s%, l%, a) for a colour with alpha below 1.
C1_ThreePresentations ==
    CallMade =>
        /\ Len(CallResult) = 3
        /\ Label(2)[1] = "#"
        /\ \A i \in {1, 3} : Label(i)[Len(Label(i))] = ")"
        /\ IF CallArg.color.alpha = 100
           THEN /\ StartsWith(Label(1), <<"r", "g", "b", "(">>)
                /\ Count(Label(1), ",") = 2
                /\ Len(Label(2)) = 7
                /\ StartsWith(Label(3), <<"h", "s", "l", "(">>)
                /\ Count(Label(3), ",") = 2
           ELSE /\ StartsWith(Label(1), <<"r", "g", "b", "a", "(">>)
                /\ Count(Label(1), ",") = 3
                /\ EndsWith(Label(1), Sep \o AlphaText(CallArg.color.alpha) \o <<")">>)
                /\ Len(Label(2)) = 9
                /\ HexPairValue(Label(2)[8], Label(2)[9]) = RoundAlphaByte(CallArg.color.alpha)
                /\ StartsWith(Label(3), <<"h", "s", "l", "a", "(">>)
                /\ Count(Label(3), ",") = 3
                /\ EndsWith(Label(3), Sep \o AlphaText(CallArg.color.alpha) \o <<")">>)

\* A call on a translucent colour has returned.
C1_Witness ==
    /\ CallMade
    /\ CallArg.color.alpha = 50
    /\ Len(CallResult) = 3

\* C2: every byte is rendered as exactly two lowercase hexadecimal digits whose
\* value is the byte, so the hex label is # and 6 digits for an opaque colour and
\* # and 8 digits otherwise, pair by pair the red, green, blue and alpha bytes.
C2_TwoDigitHex ==
    CallMade =>
        LET hex == Label(2)
            bytes == <<RoundByte(CallArg.color.red), RoundByte(CallArg.color.green),
                       RoundByte(CallArg.color.blue)>>
                     \o (IF CallArg.color.alpha = 100 THEN <<>>
                         ELSE <<RoundAlphaByte(CallArg.color.alpha)>>)
        IN  /\ hex[1] = "#"
            /\ Len(hex) = 1 + 2 * Len(bytes)
            /\ \A i \in 2..Len(hex) : hex[i] \in LowerHexDigits
            /\ \A k \in 1..Len(bytes) :
                  /\ bytes[k] \in 0..255
                  /\ HexPairValue(hex[2 * k], hex[2 * k + 1]) = bytes[k]

\* A call on a colour whose red byte needs the padding and whose alpha is below 1.
C2_Witness ==
    /\ CallMade
    /\ RoundByte(CallArg.color.red) = 10
    /\ CallArg.color.alpha = 5
    /\ Len(Label(2)) = 9

\* C3: for red = 1, green = 0, blue = 0, alpha = 1 the labels are rgb(255, 0, 0),
\* #ff0000 and hsl(0, 100%, 50%), in that order.
C3_PureRed ==
    (CallMade /\ CallArg.color = Color(ChannelScale, 0, 0, 100)) =>
        /\ Len(CallResult) = 3
        /\ Label(1) = <<"r", "g", "b", "(", "2", "5", "5", ",", " ", "0", ",", " ", "0", ")">>
        /\ Label(2) = <<"#", "f", "f", "0", "0", "0", "0">>
        /\ Label(3) = <<"h", "s", "l", "(", "0", ",", " ", "1", "0", "0", "%", ",", " ",
                        "5", "0", "%", ")">>

\* The call on pure red has returned.
C3_Witness ==
    /\ CallMade
    /\ CallArg.color = Color(ChannelScale, 0, 0, 100)
    /\ Len(CallResult) = 3

\* C10: every presentation carries a text edit that replaces the range of the
\* colour asked about with the presentation's own label.
C10_EditsReplaceRange ==
    CallMade =>
        /\ CallArg \in AllColorInfos
        /\ \A i \in 1..Len(CallResult) :
              /\ CallResult[i].textEdit.range = CallArg.range
              /\ CallResult[i].textEdit.newText = CallResult[i].label

\* A call has returned three presentations with three different labels.
C10_Witness ==
    /\ CallMade
    /\ Len(CallResult) = 3
    /\ Cardinality({Label(i) : i \in 1..3}) = 3

ServerCalls == 1..Len(calls)

C5_ActivationSurvivesMissingMetadata ==
    (packageJson # "present" /\ pc # "init") =>
        /\ pc = "done"
        /\ clientState # "none"
        /\ onReady # "none"
        /\ langConfigs = Languages
        /\ telemetryReporter = "null"
        /\ reporterLog = <<>>

IsReadyEvent(e) == e.ready

SentToReporter(events) ==
    [i \in 1..Len(events) |-> [key |-> events[i].key, data |-> events[i].data]]

\* C6: with a reporter, the events the server emits once the client is ready are
\* the sendTelemetryEvent calls on the reporter: each once, key and data
\* unchanged, in the order of emission, and nothing else.
C6_TelemetryForwarded ==
    telemetryReporter # "null" =>
        reporterLog = SentToReporter(SelectSeq(emitted, IsReadyEvent))

\* Two different events were forwarded.
C6_Witness ==
    /\ telemetryReporter # "null"
    /\ Len(reporterLog) = 2
    /\ reporterLog[1] # reporterLog[2]

\* C7: a provideDocumentColors call makes exactly one request and, once the server
\* has answered, holds a list as long as the server's, entry by entry the same
\* range and the same red, green, blue and alpha.
C7_DocumentColors ==
    \A i \in ServerCalls :
        calls[i].kind = "colors" =>
            /\ calls[i].requests = 1
            /\ calls[i].status = "resolved" =>
                  /\ Len(calls[i].result) = Len(calls[i].answer)
                  /\ \A k \in 1..Len(calls[i].answer) :
                        LET in == calls[i].answer[k]
                            out == calls[i].result[k]
                        IN  /\ out.range.start.line = in.range.start.line
                            /\ out.range.start.character = in.range.start.character
                            /\ out.range.end.line = in.range.end.line
                            /\ out.range.end.character = in.range.end.character
                            /\ out.color.red = in.color.red
                            /\ out.color.green = in.color.green
                            /\ out.color.blue = in.color.blue
                            /\ out.color.alpha = in.color.alpha

\* A call has resolved with an answer of two different colours.
C7_Witness ==
    \E i \in ServerCalls :
        /\ calls[i].kind = "colors"
        /\ calls[i].status = "resolved"
        /\ Len(calls[i].answer) = 2
        /\ calls[i].answer[1] # calls[i].answer[2]

\* C8 as stated: after the shutdown no registration made by activate is live.
C8_NothingLiveAfterShutdown ==
    shutdown => live = {}

\* C9: the colour provider, the tag-closing handler and the telemetry handler are
\* registered only once the client has started and is ready, in that order and
\* once each; while the client is not ready none is registered; the three
\* language configurations are set when activate returns, ready or not.
C9_RegistrationsAfterReady ==
    /\ registered \in {<<>>, <<"colorProvider", "tagClosing", "telemetryHandler">>}
    /\ registered # <<>> =>
          (onReady = "resolved" /\ clientState \in {"running", "stopping", "stopped"})
    /\ onReady # "resolved" =>
          (registered = <<>>
           /\ live \cap {"colorProvider", "tagClosing", "telemetryHandler"} = {})
    /\ pc = "done" => langConfigs = {"html", "handlebars", "razor"}
    /\ pc # "done" => (langConfigs = {} /\ registered = <<>>)

\* The client is ready and the three registrations are made.
C9_Witness ==
    /\ onReady = "resolved"
    /\ clientState = "running"
    /\ Len(registered) = 3

====
